---- MODULE Spec2Model ----
(***************************************************************************)
(* Model of ddsp/training/preprocessing.py: the Preprocessor base class,   *)
(* DefaultPreprocessor and the add_channel_dim helper.                     *)
(*                                                                         *)
(* A tensor is a record [shape, dtype, data]: shape is the sequence of its *)
(* dimensions, dtype its element type and data the history of the value:   *)
(* the name of the input entry it was read from followed by the value-     *)
(* changing operations applied to it since.  A feature mapping (a Python   *)
(* dict) is a function from Keys to tensors, a key the dict does not hold  *)
(* being bound to Absent.  Dicts live in a heap and are named by           *)
(* references, so that copying a dict and aliasing it differ.              *)
(***************************************************************************)
EXTENDS Integers, Sequences, FiniteSets

\* ------------------------------------------------------------ bounds
MaxRank == 4
MaxTime == 2
MaxTimeSteps == 2

\* ------------------------------------------------------------ tensors
Keys == {"audio", "loudness", "f0", "f0_hz", "f0_confidence"}

Absent == [shape |-> <<>>, dtype |-> "absent", data |-> <<>>]

Rank(x) == Len(x.shape)

\* The axis (1-based) that holds time: [t] or [batch, t, ...].
TimeAxis(x) == IF Rank(x) = 1 THEN 1 ELSE 2

TimeLen(x) == x.shape[TimeAxis(x)]

\* A tensor of rank r with t time steps: [t], [2, t], [2, t, 1], [2, t, 1, 1]...
ShapeOf(r, t) ==
  [i \in 1..r |-> IF (r = 1 /\ i = 1) \/ (r > 1 /\ i = 2) THEN t
                  ELSE IF i = 1 THEN 2 ELSE 1]

InputTensor(k, r, t, d) == [shape |-> ShapeOf(r, t), dtype |-> d, data |-> <<k>>]

\* Variant: the rank test is off by one.
add_channel_dim_rank3(x) ==
  IF Rank(x) = 3 THEN [x EXCEPT !.shape = Append(@, 1)] ELSE x

\* Variant: the dimension is appended whatever the rank.
add_channel_dim_always(x) == [x EXCEPT !.shape = Append(@, 1)]

\* x[:, :, tf.newaxis] if len(x.shape) == 2 else x
add_channel_dim(x) ==
  IF Rank(x) = 2 THEN [x EXCEPT !.shape = Append(@, 1)] ELSE x

\* ddsp.core.tf_float32: a cast to float32, the tensor itself when it already is.
tf_float32(x) ==
  IF x.dtype = "float32" THEN x
  ELSE [x EXCEPT !.dtype = "float32", !.data = Append(@, "cast_float32")]

\* ddsp.core.resample: interpolates the time axis to n_timesteps steps.
resample(x, n_timesteps) ==
  LET y == tf_float32(x)
  IN  [y EXCEPT !.shape = [@ EXCEPT ![TimeAxis(x)] = n_timesteps],
                !.data = Append(@, "resample")]

\* conditioning['f0'] * 127.0
Times127(x) == [x EXCEPT !.data = Append(@, "times_127")]

\* ddsp.core.midi_to_hz: the linear-to-exponential frequency conversion.
midi_to_hz(x) == [x EXCEPT !.data = Append(@, "midi_to_hz")]

\* fn(conditioning[k], **kwargs) for the three functions the chain applies.
CallFn(fn, x, self) ==
  CASE fn = "tf_float32" -> tf_float32(x)
    [] fn = "add_channel_dim" -> add_channel_dim(x)
    [] fn = "resample" -> resample(x, self.time_steps)

\* ------------------------------------------------------------ mappings
EmptyMapping == [k \in Keys |-> Absent]

HasKey(m, k) == m[k] # Absent

KeysOf(m) == {k \in Keys : HasKey(m, k)}

\* The candidate values of each entry of an input mapping.
Candidates(k) ==
  CASE k = "audio" ->
         {Absent} \cup {InputTensor(k, 2, MaxTime + 1, d) : d \in {"float32", "float64"}}
    [] k \in {"loudness", "f0"} ->
         {Absent} \cup {InputTensor(k, r, t, "float32") : r \in 1..MaxRank, t \in 1..MaxTime}
    [] OTHER -> {Absent, InputTensor(k, 3, MaxTime, "float32")}

InputMappings ==
  {[k \in Keys |-> CASE k = "audio" -> a
                    [] k = "loudness" -> l
                    [] k = "f0" -> f
                    [] k = "f0_hz" -> h
                    [] OTHER -> c] :
     a \in Candidates("audio"), l \in Candidates("loudness"), f \in Candidates("f0"),
     h \in Candidates("f0_hz"), c \in Candidates("f0_confidence")}

\* ------------------------------------------------------------ objects
FeaturesRef == "features"
NewRef == "copy"
Refs == {FeaturesRef, NewRef}

\* Variant: conditioning = features, no copy.
copy_alias(ref) == ref

\* copy.copy(features): a new dict with the same entries.
copy_copy(ref) == NewRef

\* DefaultPreprocessor.__init__(time_steps=1000, scale_f0_to_hz=False)
DefaultTimeSteps == 1000
DefaultScaleF0ToHz == FALSE

Preprocessors ==
  {[cls |-> "Preprocessor", time_steps |-> 0, scale_f0_to_hz |-> FALSE]}
  \cup {[cls |-> "DefaultPreprocessor", time_steps |-> n, scale_f0_to_hz |-> s] :
          n \in (1..MaxTimeSteps) \cup {DefaultTimeSteps},
          s \in {DefaultScaleF0ToHz, ~DefaultScaleF0ToHz}}

VARIABLES
  self,          \* the preprocessor: its class, time_steps and scale_f0_to_hz
  heap,          \* the dicts: the caller's features and the copy get_outputs makes
  input,         \* the caller's mapping as it was when the call was made
  entry,         \* how the call was made: "__call__" or "get_outputs"
  training,      \* the training argument get_outputs receives
  pc,            \* "idle", "get_outputs", "chain", "returned" or "raised"
  step,          \* the position in the chain while pc = "chain"
  conditioning,  \* the reference _default_processing works on
  outcome,       \* what the call ended in
  trace,         \* the writes to the conditioning dict, in order
  prev           \* the call before this one, once it has finished

vars == <<self, heap, input, entry, training, pc, step, conditioning, outcome, trace, prev>>

\* ------------------------------------------------------------ the chain
\* self._apply(conditioning, keys, fn, **kwargs): one step per key, in order.
_apply(keys, fn) == [i \in 1..Len(keys) |-> [key |-> keys[i], fn |-> fn]]

\* Variant: the resampling is moved before the channel dimension of 'f0'.
_default_processing_resample_early ==
  _apply(<<"audio">>, "tf_float32")
  \o _apply(<<"loudness">>, "add_channel_dim")
  \o _apply(<<"loudness">>, "resample")
  \o _apply(<<"f0">>, "add_channel_dim")
  \o _apply(<<"f0">>, "resample")

\* Variant: 'f0' is left out of the resampling.
_default_processing_f0_not_resampled ==
  _apply(<<"audio">>, "tf_float32")
  \o _apply(<<"loudness", "f0">>, "add_channel_dim")
  \o _apply(<<"loudness">>, "resample")

\* Variant: 'audio' is put through the channel dimension and the resampling too.
_default_processing_audio_too ==
  _apply(<<"audio">>, "tf_float32")
  \o _apply(<<"audio", "loudness", "f0">>, "add_channel_dim")
  \o _apply(<<"audio", "loudness", "f0">>, "resample")

\* Variant: 'audio' is converted last.
_default_processing_audio_last ==
  _apply(<<"loudness", "f0">>, "add_channel_dim")
  \o _apply(<<"loudness", "f0">>, "resample")
  \o _apply(<<"audio">>, "tf_float32")

\* The _apply calls of _default_processing, in program order.
_default_processing ==
  _apply(<<"audio">>, "tf_float32")
  \o _apply(<<"loudness", "f0">>, "add_channel_dim")
  \o _apply(<<"loudness", "f0">>, "resample")

\* Variant: the resampling is done in training only.
get_outputs_chain_training_only(training_flag) ==
  IF training_flag THEN _default_processing
  ELSE _apply(<<"audio">>, "tf_float32") \o _apply(<<"loudness", "f0">>, "add_channel_dim")

\* DefaultPreprocessor.get_outputs(features, training) runs _default_processing.
get_outputs_chain(training_flag) == _default_processing

\* Variant: the derived entry overwrites 'f0'.
F0HzKeyIsF0 == "f0"

\* The key written at the end of the chain.
F0HzKey == "f0_hz"

\* Variant: the derived entry is computed from the caller's 'f0'.
F0HzValueFromInput(cond, scale) ==
  IF scale THEN midi_to_hz(Times127(heap[FeaturesRef]["f0"])) ELSE heap[FeaturesRef]["f0"]

\* The value bound to 'f0_hz': read from the conditioning dict after the chain.
F0HzValue(cond, scale) ==
  IF scale THEN midi_to_hz(Times127(cond["f0"])) ELSE cond["f0"]

\* __call__(self, features, training=True)
DefaultTraining == TRUE

NoOutcome == [kind |-> "none", key |-> "", ref |-> ""]

NoPrev == [called |-> FALSE, entry |-> "", training |-> FALSE,
           kind |-> "none", key |-> "", output |-> EmptyMapping]

Finished == pc \in {"returned", "raised"}

\* The mapping a finished call returned (EmptyMapping when it raised).
Output == IF outcome.kind = "returned" THEN heap[outcome.ref] ELSE EmptyMapping

\* A preprocessor has been constructed and the caller holds a feature mapping.
Init ==
  /\ self \in Preprocessors
  /\ input \in InputMappings
  /\ heap = [r \in Refs |-> IF r = FeaturesRef THEN input ELSE EmptyMapping]
  /\ entry = ""
  /\ training = FALSE
  /\ pc = "idle"
  /\ step = 0
  /\ conditioning = ""
  /\ outcome = NoOutcome
  /\ trace = <<>>
  /\ prev = NoPrev

\* The caller passes its feature mapping to the preprocessor.  input is the
\* mapping as it is at the time of the call, prev the call that just finished
\* (kept when that call was made on an equal mapping).
Invoke(how, flag) ==
  /\ pc = "idle" \/ Finished
  /\ input' = heap[FeaturesRef]
  /\ heap' = [heap EXCEPT ![NewRef] = EmptyMapping]
  /\ entry' = how
  /\ training' = flag
  /\ pc' = "get_outputs"
  /\ step' = 0
  /\ conditioning' = ""
  /\ outcome' = NoOutcome
  /\ trace' = <<>>
  /\ prev' = IF Finished /\ heap[FeaturesRef] = input
             THEN [called |-> TRUE, entry |-> entry, training |-> training,
                   kind |-> outcome.kind, key |-> outcome.key, output |-> Output]
             ELSE NoPrev
  /\ UNCHANGED self

\* preprocessor(features): training takes its default.
CallDefaultTraining == Invoke("__call__", DefaultTraining)

\* preprocessor(features, training): return self.get_outputs(features, training)
Call == \E flag \in BOOLEAN : Invoke("__call__", flag)

\* preprocessor.get_outputs(features, training)
CallGetOutputs == \E flag \in BOOLEAN : Invoke("get_outputs", flag)

\* Preprocessor.get_outputs: raise NotImplementedError
BaseGetOutputs ==
  /\ pc = "get_outputs"
  /\ self.cls = "Preprocessor"
  /\ pc' = "raised"
  /\ outcome' = [kind |-> "NotImplementedError", key |-> "", ref |-> ""]
  /\ UNCHANGED <<self, heap, input, entry, training, step, conditioning, trace, prev>>

\* DefaultPreprocessor.get_outputs: conditioning = copy.copy(features)
DefaultGetOutputs ==
  /\ pc = "get_outputs"
  /\ self.cls = "DefaultPreprocessor"
  /\ LET c == copy_copy(FeaturesRef)
     IN  /\ conditioning' = c
         /\ heap' = [heap EXCEPT ![c] = heap[FeaturesRef]]
  /\ pc' = "chain"
  /\ step' = 1
  /\ UNCHANGED <<self, input, entry, training, outcome, trace, prev>>

\* The steps the call in progress runs.
Chain == get_outputs_chain(training)

\* conditioning[k] = fn(conditioning[k], **kwargs)
Apply ==
  /\ pc = "chain"
  /\ step \in 1..Len(Chain)
  /\ HasKey(heap[conditioning], Chain[step].key)
  /\ heap' = [heap EXCEPT ![conditioning][Chain[step].key] = CallFn(Chain[step].fn, @, self)]
  /\ trace' = Append(trace, Chain[step])
  /\ step' = step + 1
  /\ UNCHANGED <<self, input, entry, training, pc, conditioning, outcome, prev>>

\* conditioning[k] raises KeyError when the dict has no key k.
ApplyKeyError ==
  /\ pc = "chain"
  /\ step \in 1..Len(Chain)
  /\ ~HasKey(heap[conditioning], Chain[step].key)
  /\ pc' = "raised"
  /\ outcome' = [kind |-> "KeyError", key |-> Chain[step].key, ref |-> ""]
  /\ UNCHANGED <<self, heap, input, entry, training, step, conditioning, trace, prev>>

\* conditioning['f0_hz'] = ... conditioning['f0'] ...; return conditioning
WriteF0Hz ==
  /\ pc = "chain"
  /\ step = Len(Chain) + 1
  /\ IF HasKey(heap[conditioning], "f0")
     THEN /\ heap' = [heap EXCEPT ![conditioning][F0HzKey] =
                        F0HzValue(heap[conditioning], self.scale_f0_to_hz)]
          /\ trace' = Append(trace, [key |-> F0HzKey, fn |-> "write"])
          /\ pc' = "returned"
          /\ outcome' = [kind |-> "returned", key |-> "", ref |-> conditioning]
     ELSE /\ pc' = "raised"
          /\ outcome' = [kind |-> "KeyError", key |-> "f0", ref |-> ""]
          /\ UNCHANGED <<heap, trace>>
  /\ UNCHANGED <<self, input, entry, training, step, conditioning, prev>>

Next ==
  \/ CallDefaultTraining
  \/ Call
  \/ CallGetOutputs
  \/ BaseGetOutputs
  \/ DefaultGetOutputs
  \/ Apply
  \/ ApplyKeyError
  \/ WriteF0Hz

Spec == Init /\ [][Next]_vars

\* ------------------------------------------------------------ properties
Returned == pc = "returned"

ChainKeys == {"audio", "loudness", "f0"}

\* C1 as stated: whenever a call on a mapping holding 'audio', 'loudness' and
\* 'f0' returns, every input key is in the output and the output has exactly
\* one key more than the input.
C1_ExactlyOneKeyMore ==
  (Returned /\ ChainKeys \subseteq KeysOf(input)) =>
    /\ KeysOf(input) \subseteq KeysOf(Output)
    /\ Cardinality(KeysOf(Output)) = Cardinality(KeysOf(input)) + 1

\* C1 amended: the keys of the output are the input keys together with
\* 'f0_hz': one key more when the input has no 'f0_hz', the same keys when
\* the input already has one.
C1_OutputKeys ==
  (Returned /\ ChainKeys \subseteq KeysOf(input)) =>
    /\ KeysOf(input) \subseteq KeysOf(Output)
    /\ "f0_hz" \in KeysOf(Output)
    /\ Cardinality(KeysOf(Output)) =
         Cardinality(KeysOf(input)) + (IF "f0_hz" \in KeysOf(input) THEN 0 ELSE 1)

C1_Witness ==
  /\ Returned
  /\ "f0_hz" \in KeysOf(input)
  /\ "f0_confidence" \in KeysOf(input)
  /\ Cardinality(KeysOf(Output)) = Cardinality(KeysOf(input))

\* C2: in the output of a call that returns, 'loudness' and 'f0' both have
\* exactly time_steps steps on the time axis, whatever the lengths of the inputs.
C2_ResampledToTimeSteps ==
  Returned =>
    /\ TimeLen(Output["loudness"]) = self.time_steps
    /\ TimeLen(Output["f0"]) = self.time_steps

C2_Witness ==
  /\ Returned
  /\ TimeLen(input["loudness"]) > self.time_steps
  /\ TimeLen(input["f0"]) = self.time_steps
  /\ TimeLen(input["loudness"]) # TimeLen(input["f0"])
  /\ TimeLen(Output["loudness"]) = self.time_steps

\* C3 as stated: in the output of a call that returns, 'loudness' and 'f0'
\* have rank 3, whatever the rank of the input entries.
C3_AlwaysRank3 ==
  Returned => Rank(Output["loudness"]) = 3 /\ Rank(Output["f0"]) = 3

\* C3 amended: in the output of a call that returns, 'loudness' and 'f0' have
\* rank 3 when the input entry has rank 2 or 3.
C3_Rank3FromRank2Or3 ==
  Returned =>
    \A k \in {"loudness", "f0"} : Rank(input[k]) \in {2, 3} => Rank(Output[k]) = 3

C3_Witness ==
  /\ Returned
  /\ Rank(input["loudness"]) = 2
  /\ Rank(input["f0"]) = 3
  /\ Rank(Output["loudness"]) = 3
  /\ Rank(Output["f0"]) = 3

\* C4: during and after a call, returned or raised, the caller's mapping has
\* the keys and values it had when the call was made, and gains no 'f0_hz'.
C4_InputUntouched ==
  /\ heap[FeaturesRef] = input
  /\ ~HasKey(input, "f0_hz") => ~HasKey(heap[FeaturesRef], "f0_hz")

C4_Witness ==
  /\ pc = "raised"
  /\ outcome.kind = "KeyError"
  /\ outcome.key = "f0"
  /\ heap[conditioning]["loudness"] # input["loudness"]
  /\ heap[conditioning]["audio"] # input["audio"]
  /\ heap[FeaturesRef] = input

\* C5: 'f0_hz' is computed from the output 'f0': it is the output 'f0' when
\* scale_f0_to_hz is false, midi_to_hz(output 'f0' * 127) when it is true,
\* the output 'f0' being the resampled, unscaled input; 'f0_hz' has the shape
\* of the output 'f0' and time_steps steps.
C5_F0HzFromOutputF0 ==
  Returned =>
    /\ Output["f0"].data = <<"f0", "resample">>
    /\ ~self.scale_f0_to_hz => Output["f0_hz"] = Output["f0"]
    /\ self.scale_f0_to_hz =>
         /\ Output["f0_hz"].data = <<"f0", "resample", "times_127", "midi_to_hz">>
         /\ Output["f0_hz"].dtype = Output["f0"].dtype
    /\ Output["f0_hz"].shape = Output["f0"].shape
    /\ TimeLen(Output["f0_hz"]) = self.time_steps

C5_Witness ==
  /\ Returned
  /\ self.scale_f0_to_hz
  /\ Rank(input["f0"]) = 2
  /\ TimeLen(input["f0"]) # self.time_steps
  /\ HasKey(input, "f0_hz")
  /\ Output["f0_hz"].shape = <<2, self.time_steps, 1>>

\* The writes of a whole chain, in order.
ExpectedOrder ==
  << [key |-> "audio", fn |-> "tf_float32"],
     [key |-> "loudness", fn |-> "add_channel_dim"],
     [key |-> "f0", fn |-> "add_channel_dim"],
     [key |-> "loudness", fn |-> "resample"],
     [key |-> "f0", fn |-> "resample"],
     [key |-> "f0_hz", fn |-> "write"] >>

\* C6: the writes of a call are always an initial part of the one fixed order
\* audio/float32, loudness/channel, f0/channel, loudness/resample,
\* f0/resample, f0_hz; no resampling comes before a channel-dimension step,
\* 'f0_hz' is written after the resampling of 'f0' and is the last write, and
\* a call that returns has made all six.
C6_FixedOrder ==
  /\ Len(trace) <= Len(ExpectedOrder)
  /\ trace = SubSeq(ExpectedOrder, 1, Len(trace))
  /\ \A i, j \in 1..Len(trace) :
       (trace[i].fn = "resample" /\ trace[j].fn = "add_channel_dim") => j < i
  /\ \A i \in 1..Len(trace) :
       trace[i].key = "f0_hz" =>
         /\ i = Len(trace)
         /\ \E j \in 1..(i - 1) : trace[j] = [key |-> "f0", fn |-> "resample"]
  /\ Returned => trace = ExpectedOrder

C6_Witness ==
  /\ Returned
  /\ Len(trace) = 6
  /\ trace[6].key = "f0_hz"

\* C7: in the output of a call that returns, every key other than 'audio',
\* 'loudness', 'f0' and 'f0_hz' has its input value, and 'audio' is float32
\* with its input shape.
C7_OthersUntouched ==
  Returned =>
    /\ \A k \in Keys \ {"audio", "loudness", "f0", "f0_hz"} : Output[k] = input[k]
    /\ Output["audio"].shape = input["audio"].shape
    /\ Output["audio"].dtype = "float32"
    /\ input["audio"].dtype = "float32" => Output["audio"] = input["audio"]

C7_Witness ==
  /\ Returned
  /\ HasKey(input, "f0_confidence")
  /\ Output["f0_confidence"] = input["f0_confidence"]
  /\ input["audio"].dtype = "float64"
  /\ Output["audio"].dtype = "float32"
  /\ TimeLen(Output["audio"]) # self.time_steps
  /\ Rank(Output["audio"]) = 2

\* The entry a write of add_channel_dim has just been made to.
JustAddedChannelDim(k) ==
  /\ trace # <<>>
  /\ trace[Len(trace)] = [key |-> k, fn |-> "add_channel_dim"]

\* C8: add_channel_dim turns a rank-2 argument [b, t] into [b, t, 1] with the
\* same values, and returns an argument of any other rank unchanged.
C8_AddChannelDim ==
  \A k \in {"loudness", "f0"} :
    JustAddedChannelDim(k) =>
      LET x == input[k]
          y == heap[conditioning][k]
      IN  IF Rank(x) = 2
          THEN /\ y.shape = <<x.shape[1], x.shape[2], 1>>
               /\ y.dtype = x.dtype
               /\ y.data = x.data
          ELSE y = x

C8_Witness ==
  /\ JustAddedChannelDim("f0")
  /\ Rank(input["loudness"]) = 2
  /\ Rank(heap[conditioning]["loudness"]) = 3
  /\ Rank(input["f0"]) = 4
  /\ heap[conditioning]["f0"] = input["f0"]

\* C9: a DefaultPreprocessor call on a mapping lacking 'audio', 'loudness' or
\* 'f0' never returns: it ends in a KeyError for a missing key and no mapping
\* is returned; a missing 'audio' is reported with no entry written.  A call
\* on the base Preprocessor never enters the chain nor returns, and ends in
\* NotImplementedError.
C9_Errors ==
  /\ (self.cls = "DefaultPreprocessor" /\ ~(ChainKeys \subseteq KeysOf(input))) =>
       /\ ~Returned
       /\ pc = "raised" =>
            /\ outcome.kind = "KeyError"
            /\ outcome.key \in ChainKeys \ KeysOf(input)
            /\ outcome.ref = ""
            /\ Output = EmptyMapping
  /\ (self.cls = "DefaultPreprocessor" /\ ~HasKey(input, "audio") /\ pc = "raised") =>
       /\ outcome.key = "audio"
       /\ trace = <<>>
       /\ heap[conditioning] = input
  /\ self.cls = "Preprocessor" =>
       /\ pc \in {"idle", "get_outputs", "raised"}
       /\ pc = "raised" => outcome.kind = "NotImplementedError" /\ outcome.ref = ""

C9_Witness ==
  /\ self.cls = "DefaultPreprocessor"
  /\ pc = "raised"
  /\ outcome = [kind |-> "KeyError", key |-> "audio", ref |-> ""]
  /\ HasKey(input, "loudness")
  /\ ~HasKey(input, "f0")
  /\ heap[conditioning] = input

\* Two finished calls on equal mappings have the same outcome: the same kind
\* of ending, the same error key and the same output mapping.
SameOutcomeAsPrev ==
  (prev.called /\ Finished) =>
    /\ prev.kind = outcome.kind
    /\ prev.key = outcome.key
    /\ prev.output = Output

\* C10: __call__(features, training) ends as get_outputs(features, training)
\* does, training being true when it is left out, and the outcome of two
\* calls on equal mappings is the same whatever the training flags and
\* whichever way the calls were made.
C10_CallAndTraining ==
  /\ []SameOutcomeAsPrev
  /\ [][CallDefaultTraining => (training' = TRUE /\ pc' = "get_outputs")]_vars

C10_Witness ==
  /\ prev.called
  /\ Returned
  /\ prev.kind = "returned"
  /\ prev.entry = "__call__"
  /\ entry = "get_outputs"
  /\ prev.training
  /\ ~training
  /\ prev.output = Output
  /\ HasKey(Output, "f0_hz")

====
